---- MODULE Spec2Model ----
(***************************************************************************)
(* Model of package lmstudio (export.go): the Modelfile directive parser   *)
(* ParseOllamaModelfile, the template translator convertGoTemplateToJinja  *)
(* and the flat-document mapper ConvertToLMStudioFormat.                   *)
(*                                                                         *)
(* A Go string is a sequence of symbols.  A symbol is one character        *)
(* ("{", " ", a quote, a digit) or a word the code only ever compares as a *)
(* whole ("TEMPLATE", ".System", "<|user|>"); strings.* functions are the  *)
(* operators below, working on those sequences.                            *)
(***************************************************************************)
EXTENDS Integers, Sequences, FiniteSets, TLC

VARIABLES
    pc,                     \* position of the function being run
    modelfileContent,       \* ParseOllamaModelfile: the argument
    lines, idx,             \* ParseOllamaModelfile: strings.Split result, loop index
    templateLines, systemLines,
    inTemplate, inMultilineTemplate, inDoubleQuotedTemplate,
    inSystem, inMultilineSystem, inDoubleQuotedSystem,
    parsed,                 \* *ParsedModelfile: Template, System, Parameters
    err,                    \* the error result of the function being run
    outside,                \* history: outside[i] iff line i met no active capture
    goTemplate, result, result2,   \* convertGoTemplateToJinja: argument, value, value of a second run
    config,                 \* *LMStudioConfig: PredictionConfig.Fields, LoadModelConfig.Fields
    todo,                   \* ConvertToLMStudioFormat: keys the range loop has not visited
    modelName, preset,      \* ConvertToLMStudioPreset: the display name, *LMStudioPreset
    templateArg, bosToken, eosToken,  \* extractBOSToken, extractEOSToken: argument and values
    exportFn,               \* ExportModelConfig or ExportModelPreset, whichever runs
    steps,                  \* history: the calls the export has made, with their outcome
    files                   \* the file system sink: what os.WriteFile has stored

vars == <<pc, modelfileContent, lines, idx, templateLines, systemLines,
          inTemplate, inMultilineTemplate, inDoubleQuotedTemplate,
          inSystem, inMultilineSystem, inDoubleQuotedSystem,
          parsed, err, outside, goTemplate, result, result2, config, todo,
          modelName, preset, templateArg, bosToken, eosToken, exportFn, steps, files>>

parserVars == <<modelfileContent, lines, idx, templateLines, systemLines,
                inTemplate, inMultilineTemplate, inDoubleQuotedTemplate,
                inSystem, inMultilineSystem, inDoubleQuotedSystem, outside>>

presetVars == <<modelName, preset>>
tokenVars == <<templateArg, bosToken, eosToken>>
exportVars == <<exportFn, steps, files>>
restVars == <<presetVars, tokenVars, exportVars>>

----------------------------------------------------------------------------
(* Bounds *)

MaxLines == 3       \* lines of a directive source
MaxPieces == 3      \* pieces a template is put together from
MaxParams == 2      \* entries of a parameter mapping

----------------------------------------------------------------------------
(* package strings *)

Q == "\""
QQQ == <<Q, Q, Q>>
SP == " "
NL == "\n"
WhiteSpace == {" ", "\t", "\n", "\r", "\f"}

MinOf(S) == CHOOSE x \in S : \A y \in S : x <= y
MaxOf(S) == CHOOSE x \in S : \A y \in S : x >= y

HasPrefix(s, prefix) ==
    Len(s) >= Len(prefix) /\ SubSeq(s, 1, Len(prefix)) = prefix

HasSuffix(s, suffix) ==
    Len(s) >= Len(suffix) /\ SubSeq(s, Len(s) - Len(suffix) + 1, Len(s)) = suffix

Contains(s, substr) ==
    \E i \in 1..(Len(s) - Len(substr) + 1) : SubSeq(s, i, i + Len(substr) - 1) = substr

TrimPrefix(s, prefix) ==
    IF HasPrefix(s, prefix) THEN SubSeq(s, Len(prefix) + 1, Len(s)) ELSE s

TrimSuffix(s, suffix) ==
    IF HasSuffix(s, suffix) THEN SubSeq(s, 1, Len(s) - Len(suffix)) ELSE s

\* strings.Trim(s, cutset) for a cutset given as a set of symbols
TrimSet(s, cutset) ==
    LET keep == {i \in 1..Len(s) : s[i] \notin cutset}
    IN  IF keep = {} THEN <<>> ELSE SubSeq(s, MinOf(keep), MaxOf(keep))

TrimSpace(s) == TrimSet(s, WhiteSpace)

\* strings.SplitN(s, sep, 2) for a one-symbol separator
SplitN2(s, sep) ==
    LET at == {i \in 1..Len(s) : s[i] = sep}
    IN  IF at = {} THEN <<s>>
        ELSE <<SubSeq(s, 1, MinOf(at) - 1), SubSeq(s, MinOf(at) + 1, Len(s))>>

\* strings.Split(s, sep) for a one-symbol separator
RECURSIVE Split(_, _)
Split(s, sep) ==
    LET parts == SplitN2(s, sep)
    IN  IF Len(parts) = 1 THEN parts ELSE <<parts[1]>> \o Split(parts[2], sep)

\* strings.Join(elems, sep) for a one-symbol separator
RECURSIVE Join(_, _)
Join(elems, sep) ==
    IF Len(elems) = 0 THEN <<>>
    ELSE IF Len(elems) = 1 THEN elems[1]
    ELSE elems[1] \o <<sep>> \o Join(Tail(elems), sep)

----------------------------------------------------------------------------
(* Go slices and maps: a nil slice differs from an empty one only when it  *)
(* is marshalled (null against []); len and append treat them alike.       *)

NilSlice == [isNil |-> TRUE, elems |-> <<>>]
MakeSlice(s) == [isNil |-> FALSE, elems |-> s]

\* m[k] for a map[string][]string: the zero value (nil) for a missing key
MapGet(m, k) == IF k \in DOMAIN m THEN MakeSlice(m[k]) ELSE NilSlice

\* m[k] = append(m[k], v)
MapAppend(m, k, v) ==
    [x \in DOMAIN m \cup {k} |-> IF x = k THEN Append(MapGet(m, k).elems, v) ELSE m[x]]

EmptyMap == [x \in {} |-> <<>>]

----------------------------------------------------------------------------
(* ParseOllamaModelfile *)

KwTemplate == <<"TEMPLATE">>
KwSystem == <<"SYSTEM">>
KwParameter == <<"PARAMETER", SP>>

\* the locals of the scan loop and the result under construction
Locals ==
    [templateLines |-> templateLines, systemLines |-> systemLines,
     inTemplate |-> inTemplate, inMultilineTemplate |-> inMultilineTemplate,
     inDoubleQuotedTemplate |-> inDoubleQuotedTemplate,
     inSystem |-> inSystem, inMultilineSystem |-> inMultilineSystem,
     inDoubleQuotedSystem |-> inDoubleQuotedSystem,
     parsed |-> parsed]

AppendNonEmpty(ls, s) == IF s # <<>> THEN Append(ls, s) ELSE ls

\* a plausible slip: the closing quote of a single-line value is kept
TemplateDirectiveKeepsQuote(st, trimmed) ==
    IF Contains(trimmed, QQQ)
    THEN LET c1 == TrimSpace(TrimPrefix(trimmed, <<"TEMPLATE", SP>>))
             templateContent == IF HasPrefix(c1, QQQ) THEN TrimPrefix(c1, QQQ) ELSE c1
         IN  [st EXCEPT !.inTemplate = TRUE, !.inMultilineTemplate = TRUE,
                        !.templateLines = AppendNonEmpty(@, templateContent)]
    ELSE IF HasPrefix(trimmed, <<"TEMPLATE", SP, Q>>)
    THEN LET templateContent ==
                 TrimPrefix(TrimSpace(TrimPrefix(trimmed, <<"TEMPLATE", SP>>)), <<Q>>)
         IN  IF HasSuffix(templateContent, <<Q>>)
             THEN [st EXCEPT !.parsed.Template = templateContent]
             ELSE [st EXCEPT !.inTemplate = TRUE, !.inDoubleQuotedTemplate = TRUE,
                             !.templateLines = AppendNonEmpty(@, templateContent)]
    ELSE st

\* lines 240-270: the body of the TEMPLATE directive branch
TemplateDirective(st, trimmed) ==
    IF Contains(trimmed, QQQ)
    THEN LET c1 == TrimSpace(TrimPrefix(trimmed, <<"TEMPLATE", SP>>))
             templateContent == IF HasPrefix(c1, QQQ) THEN TrimPrefix(c1, QQQ) ELSE c1
         IN  [st EXCEPT !.inTemplate = TRUE, !.inMultilineTemplate = TRUE,
                        !.templateLines = AppendNonEmpty(@, templateContent)]
    ELSE IF HasPrefix(trimmed, <<"TEMPLATE", SP, Q>>)
    THEN LET templateContent ==
                 TrimPrefix(TrimSpace(TrimPrefix(trimmed, <<"TEMPLATE", SP>>)), <<Q>>)
         IN  IF HasSuffix(templateContent, <<Q>>)
             THEN [st EXCEPT !.parsed.Template = TrimSuffix(templateContent, <<Q>>)]
             ELSE [st EXCEPT !.inTemplate = TRUE, !.inDoubleQuotedTemplate = TRUE,
                             !.templateLines = AppendNonEmpty(@, templateContent)]
    ELSE st

\* a plausible slip: a closing double quote ends a capture of either kind
TemplateCaptureAnyQuote(st, line, trimmed) ==
    IF st.inMultilineTemplate /\ HasSuffix(trimmed, QQQ)
    THEN [st EXCEPT !.templateLines = AppendNonEmpty(@, TrimSuffix(line, QQQ)),
                    !.inTemplate = FALSE, !.inMultilineTemplate = FALSE]
    ELSE IF HasSuffix(trimmed, <<Q>>)
    THEN [st EXCEPT !.templateLines = AppendNonEmpty(@, TrimSuffix(line, <<Q>>)),
                    !.inTemplate = FALSE, !.inDoubleQuotedTemplate = FALSE]
    ELSE [st EXCEPT !.templateLines = Append(@, line)]

\* lines 272-291: a line met while the template capture is active
TemplateCapture(st, line, trimmed) ==
    IF st.inMultilineTemplate /\ HasSuffix(trimmed, QQQ)
    THEN [st EXCEPT !.templateLines = AppendNonEmpty(@, TrimSuffix(line, QQQ)),
                    !.inTemplate = FALSE, !.inMultilineTemplate = FALSE]
    ELSE IF st.inDoubleQuotedTemplate /\ HasSuffix(trimmed, <<Q>>)
    THEN [st EXCEPT !.templateLines = AppendNonEmpty(@, TrimSuffix(line, <<Q>>)),
                    !.inTemplate = FALSE, !.inDoubleQuotedTemplate = FALSE]
    ELSE [st EXCEPT !.templateLines = Append(@, line)]

\* lines 294-324: the body of the SYSTEM directive branch
SystemDirective(st, trimmed) ==
    IF Contains(trimmed, QQQ)
    THEN LET c1 == TrimSpace(TrimPrefix(trimmed, <<"SYSTEM", SP>>))
             systemContent == IF HasPrefix(c1, QQQ) THEN TrimPrefix(c1, QQQ) ELSE c1
         IN  [st EXCEPT !.inSystem = TRUE, !.inMultilineSystem = TRUE,
                        !.systemLines = AppendNonEmpty(@, systemContent)]
    ELSE IF HasPrefix(trimmed, <<"SYSTEM", SP, Q>>)
    THEN LET systemContent ==
                 TrimPrefix(TrimSpace(TrimPrefix(trimmed, <<"SYSTEM", SP>>)), <<Q>>)
         IN  IF HasSuffix(systemContent, <<Q>>)
             THEN [st EXCEPT !.parsed.System = TrimSuffix(systemContent, <<Q>>)]
             ELSE [st EXCEPT !.inSystem = TRUE, !.inDoubleQuotedSystem = TRUE,
                             !.systemLines = AppendNonEmpty(@, systemContent)]
    ELSE st

\* lines 326-345: a line met while the system capture is active
SystemCapture(st, line, trimmed) ==
    IF st.inMultilineSystem /\ HasSuffix(trimmed, QQQ)
    THEN [st EXCEPT !.systemLines = AppendNonEmpty(@, TrimSuffix(line, QQQ)),
                    !.inSystem = FALSE, !.inMultilineSystem = FALSE]
    ELSE IF st.inDoubleQuotedSystem /\ HasSuffix(trimmed, <<Q>>)
    THEN [st EXCEPT !.systemLines = AppendNonEmpty(@, TrimSuffix(line, <<Q>>)),
                    !.inSystem = FALSE, !.inDoubleQuotedSystem = FALSE]
    ELSE [st EXCEPT !.systemLines = Append(@, line)]

\* a plausible slip: the new value is put in front of the list
ParameterDirectivePrepend(st, trimmed) ==
    LET parts == SplitN2(TrimPrefix(trimmed, KwParameter), SP)
    IN  IF Len(parts) = 2
        THEN [st EXCEPT !.parsed.Parameters =
                 [x \in DOMAIN @ \cup {parts[1]} |->
                     IF x = parts[1]
                     THEN <<TrimSet(parts[2], {Q})>> \o MapGet(@, parts[1]).elems
                     ELSE @[x]]]
        ELSE st

\* lines 347-354: the body of the PARAMETER directive branch
ParameterDirective(st, trimmed) ==
    LET paramStr == TrimPrefix(trimmed, KwParameter)
        parts == SplitN2(paramStr, SP)
    IN  IF Len(parts) = 2
        THEN LET key == parts[1]
                 value == TrimSet(parts[2], {Q})
             IN  [st EXCEPT !.parsed.Parameters = MapAppend(@, key, value)]
        ELSE st

\* a plausible slip: the capture branch taken without asking inTemplate
LoopBodyNoGuard(st, line) ==
    LET trimmed == TrimSpace(line)
    IN  IF HasPrefix(trimmed, KwTemplate) /\ ~st.inTemplate
        THEN TemplateDirective(st, trimmed)
        ELSE TemplateCapture(st, line, trimmed)

\* lines 235-356: one iteration of the scan loop
LoopBody(st, line) ==
    LET trimmed == TrimSpace(line)
    IN  IF HasPrefix(trimmed, KwTemplate) /\ ~st.inTemplate
        THEN TemplateDirective(st, trimmed)
        ELSE IF st.inTemplate
        THEN TemplateCapture(st, line, trimmed)
        ELSE IF HasPrefix(trimmed, KwSystem) /\ ~st.inSystem
        THEN SystemDirective(st, trimmed)
        ELSE IF st.inSystem
        THEN SystemCapture(st, line, trimmed)
        ELSE IF HasPrefix(trimmed, KwParameter)
        THEN ParameterDirective(st, trimmed)
        ELSE st

\* a plausible slip: the text of a capture still open at the end is dropped
JoinCapturedClosedOnly(p, tl, sl) ==
    LET p1 == IF Len(tl) > 0 /\ ~inTemplate
              THEN [p EXCEPT !.Template = Join(tl, NL)] ELSE p
    IN  IF Len(sl) > 0 /\ ~inSystem
        THEN [p1 EXCEPT !.System = Join(sl, NL)] ELSE p1

\* lines 358-364: the captured lines become the fields of the result
JoinCaptured(p, tl, sl) ==
    LET p1 == IF Len(tl) > 0 THEN [p EXCEPT !.Template = Join(tl, NL)] ELSE p
    IN  IF Len(sl) > 0 THEN [p1 EXCEPT !.System = Join(sl, NL)] ELSE p1

EmptyParsed == [Template |-> <<>>, System |-> <<>>, Parameters |-> EmptyMap]

EmptyConfig == [PredictionFields |-> <<>>, LoadFields |-> <<>>]

\* the directive lines the sources are put together from
DirectiveLines ==
    { <<>>,
      <<"a">>,
      <<"a", Q>>,
      <<"a", Q, Q, Q>>,
      <<"TEMPLATE", SP, Q, Q, Q, "a">>,
      <<"TEMPLATE", SP, Q, "a", Q>>,
      <<SP, "TEMPLATE", SP, Q, SP, "a", Q, "b", Q, SP>>,
      <<"TEMPLATE", SP, Q, "a">>,
      <<"TEMPLATE", SP, Q, Q, Q, "a", Q, Q, Q>>,
      <<"SYSTEM", SP, Q, "b", Q>>,
      <<"SYSTEM", SP, Q, Q, Q, "b">>,
      <<"SYSTEM", SP, Q, "b">>,
      <<"a", SP, "SYSTEM", SP, Q, "b", Q>>,
      <<"PARAMETER", SP, "stop", SP, Q, "A", Q>>,
      <<"PARAMETER", SP, "stop", SP, "B", SP, "C">>,
      <<"PARAMETER", SP, "temperature", SP, "0", ".", "8">>,
      <<"PARAMETER", SP, "stop">> }

SeqsUpTo(S, n) == UNION {[1..k -> S] : k \in 0..n}

Sources == {Join(ls, NL) : ls \in SeqsUpTo(DirectiveLines, MaxLines)}

\* the locals of ParseOllamaModelfile at entry (lines 217-233)
ParserIdle ==
    /\ lines = <<>> /\ idx = 0
    /\ templateLines = <<>> /\ systemLines = <<>>
    /\ inTemplate = FALSE /\ inMultilineTemplate = FALSE /\ inDoubleQuotedTemplate = FALSE
    /\ inSystem = FALSE /\ inMultilineSystem = FALSE /\ inDoubleQuotedSystem = FALSE
    /\ outside = <<>>

TranslatorIdle == goTemplate = <<>> /\ result = <<>> /\ result2 = <<>>

MapperIdle == config = EmptyConfig /\ todo = {}

\* the zero value of LMStudioPreset
ZeroPreset ==
    [Identifier |-> <<>>, Name |-> <<>>, Changed |-> FALSE,
     OperationFields |-> <<>>, LoadFields |-> <<>>]

PresetIdle == modelName = <<>> /\ preset = ZeroPreset

TokensIdle == templateArg = <<>> /\ bosToken = <<>> /\ eosToken = <<>>

ExportIdle == exportFn = "none" /\ steps = <<>> /\ files = <<>>

RestIdle == PresetIdle /\ TokensIdle /\ ExportIdle

InitParse ==
    /\ pc = "parse"
    /\ modelfileContent \in Sources
    /\ ParserIdle
    /\ parsed = EmptyParsed
    /\ err = "none"
    /\ TranslatorIdle /\ MapperIdle /\ RestIdle

\* lines 221-223: the empty source returns at once
ParseEmpty ==
    /\ pc = "parse" /\ modelfileContent = <<>>
    /\ pc' = "parsed" /\ err' = "nil"
    /\ UNCHANGED <<parserVars, parsed, restVars, goTemplate, result, result2, config, todo>>

\* line 225
ParseSplit ==
    /\ pc = "parse" /\ modelfileContent # <<>>
    /\ lines' = Split(modelfileContent, NL) /\ idx' = 1
    /\ pc' = "scan"
    /\ UNCHANGED <<modelfileContent, templateLines, systemLines,
                   inTemplate, inMultilineTemplate, inDoubleQuotedTemplate,
                   inSystem, inMultilineSystem, inDoubleQuotedSystem, outside,
                   parsed, err, restVars, goTemplate, result, result2, config, todo>>

\* lines 235-356: the loop takes the next line
ParseLine ==
    /\ pc = "scan" /\ idx <= Len(lines)
    /\ LET st == LoopBody(Locals, lines[idx])
       IN  /\ templateLines' = st.templateLines
           /\ systemLines' = st.systemLines
           /\ inTemplate' = st.inTemplate
           /\ inMultilineTemplate' = st.inMultilineTemplate
           /\ inDoubleQuotedTemplate' = st.inDoubleQuotedTemplate
           /\ inSystem' = st.inSystem
           /\ inMultilineSystem' = st.inMultilineSystem
           /\ inDoubleQuotedSystem' = st.inDoubleQuotedSystem
           /\ parsed' = st.parsed
    /\ outside' = Append(outside, ~inTemplate /\ ~inSystem)
    /\ idx' = idx + 1
    /\ UNCHANGED <<pc, modelfileContent, lines, err, restVars, goTemplate, result, result2, config, todo>>

\* lines 358-366: after the last line
ParseReturn ==
    /\ pc = "scan" /\ idx > Len(lines)
    /\ parsed' = JoinCaptured(parsed, templateLines, systemLines)
    /\ pc' = "parsed" /\ err' = "nil"
    /\ UNCHANGED <<parserVars, restVars, goTemplate, result, result2, config, todo>>

NextParse == ParseEmpty \/ ParseSplit \/ ParseLine \/ ParseReturn

SpecParse == InitParse /\ [][NextParse]_vars

----------------------------------------------------------------------------
(* Properties of ParseOllamaModelfile, checked under SpecParse *)

Returned == pc = "parsed"

\* C1 as stated: ParseOllamaModelfile returns no error, and a TEMPLATE
\* (SYSTEM) capture still open at the end of the input leaves Template
\* (System) empty.
C1_UnterminatedIsEmpty ==
    Returned => /\ err = "nil"
                /\ inTemplate => parsed.Template = <<>>
                /\ inSystem => parsed.System = <<>>

\* C1 amended: ParseOllamaModelfile returns no error, and a capture still
\* open at the end of the input leaves in its field the lines captured so
\* far, joined by newlines (the text is kept, not dropped); with no line
\* captured the field keeps the value it had when the last line was read.
C1_UnterminatedKeepsCaptured ==
    /\ [](Returned =>
            /\ err = "nil"
            /\ (inTemplate /\ templateLines # <<>>)
                   => parsed.Template = Join(templateLines, NL)
            /\ (inSystem /\ systemLines # <<>>)
                   => parsed.System = Join(systemLines, NL))
    /\ [][(pc = "scan" /\ pc' = "parsed") =>
              /\ (inTemplate /\ templateLines = <<>>) => parsed'.Template = parsed.Template
              /\ (inSystem /\ systemLines = <<>>) => parsed'.System = parsed.System]_vars

C1_Witness ==
    /\ Returned /\ inTemplate /\ Len(templateLines) = 2
    /\ parsed.Template = <<"a", NL, "a">>

\* the line is none of the three directives
NoDirective(line) ==
    LET t == TrimSpace(line)
    IN  /\ ~HasPrefix(t, <<"TEMPLATE">>)
        /\ ~HasPrefix(t, <<"SYSTEM">>)
        /\ ~HasPrefix(t, <<"PARAMETER">>)

SourceLines == Split(modelfileContent, NL)

\* C2: a source with no TEMPLATE, SYSTEM or PARAMETER line gives an empty
\* Template, an empty System and an empty Parameters mapping.
C2_NoDirectiveGivesEmpty ==
    (Returned /\ \A i \in 1..Len(SourceLines) : NoDirective(SourceLines[i]))
        => /\ parsed.Template = <<>>
           /\ parsed.System = <<>>
           /\ DOMAIN parsed.Parameters = {}

C2_Witness ==
    /\ Returned /\ Len(lines) = 3
    /\ \A i \in 1..Len(lines) : NoDirective(lines[i]) /\ lines[i] # <<>>
    /\ parsed = EmptyParsed

\* trimmed is  kw "text"  with the value opened and closed by one double
\* quote each and no triple quote on the line
SingleLineQuoted(trimmed, kw) ==
    /\ Len(trimmed) >= 4
    /\ HasPrefix(trimmed, <<kw, SP, Q>>)
    /\ HasSuffix(trimmed, <<Q>>)
    /\ ~Contains(trimmed, QQQ)

QuotedText(trimmed) == SubSeq(trimmed, 4, Len(trimmed) - 1)

AtLine == pc = "scan" /\ idx <= Len(lines)

\* C3: a line TEMPLATE "text" (SYSTEM "text") met outside a capture stores
\* exactly text, without the quotes, in Template (System) and leaves both
\* captures idle.
C3_SingleLineQuoted ==
    [][ /\ (AtLine /\ ~inTemplate /\ ~inSystem
               /\ SingleLineQuoted(TrimSpace(lines[idx]), "TEMPLATE"))
           => /\ parsed'.Template = QuotedText(TrimSpace(lines[idx]))
              /\ ~inTemplate' /\ ~inSystem'
              /\ templateLines' = templateLines
        /\ (AtLine /\ ~inTemplate /\ ~inSystem
               /\ SingleLineQuoted(TrimSpace(lines[idx]), "SYSTEM"))
           => /\ parsed'.System = QuotedText(TrimSpace(lines[idx]))
              /\ ~inTemplate' /\ ~inSystem'
              /\ systemLines' = systemLines ]_vars

C3_Witness ==
    /\ Returned /\ Len(lines) = 3
    /\ \A i \in 1..3 : outside[i]
    /\ SingleLineQuoted(TrimSpace(lines[1]), "TEMPLATE")
    /\ SingleLineQuoted(TrimSpace(lines[2]), "SYSTEM")
    /\ parsed.Template = <<SP, "a", Q, "b">>
    /\ parsed.System = <<"b">>
    /\ DOMAIN parsed.Parameters = {<<"stop">>}

\* the line is a PARAMETER line with a name and a value
IsParamLine(line) ==
    LET t == TrimSpace(line)
    IN  HasPrefix(t, <<"PARAMETER", SP>>)
        /\ SP \in {t[i] : i \in 3..Len(t)}

ParamRest(line) == SubSeq(TrimSpace(line), 3, Len(TrimSpace(line)))
FirstSpace(s) == MinOf({i \in 1..Len(s) : s[i] = SP})
ParamName(line) == SubSeq(ParamRest(line), 1, FirstSpace(ParamRest(line)) - 1)
ParamValue(line) ==
    TrimSet(SubSeq(ParamRest(line), FirstSpace(ParamRest(line)) + 1,
                   Len(ParamRest(line))), {Q})

\* the values of the first n lines that are PARAMETER lines for name and
\* were met outside any capture, in source order
RECURSIVE ValuesInOrder(_, _)
ValuesInOrder(name, n) ==
    IF n = 0 THEN <<>>
    ELSE IF outside[n] /\ IsParamLine(lines[n]) /\ ParamName(lines[n]) = name
         THEN Append(ValuesInOrder(name, n - 1), ParamValue(lines[n]))
         ELSE ValuesInOrder(name, n - 1)

NamesSeen == {ParamName(lines[i]) : i \in {j \in 1..Len(outside) : IsParamLine(lines[j])}}

\* C4: Parameters[name] is the list of the values of the PARAMETER lines for
\* name met outside any capture, in source order: none lost, duplicated or
\* reordered, whatever lines for other names come in between.
C4_ParameterOrder ==
    /\ \A name \in NamesSeen \cup DOMAIN parsed.Parameters :
           MapGet(parsed.Parameters, name).elems = ValuesInOrder(name, Len(outside))
    /\ \A name \in DOMAIN parsed.Parameters : parsed.Parameters[name] # <<>>

C4_Witness ==
    /\ Returned /\ Len(lines) = 3
    /\ IsParamLine(lines[2]) /\ ParamName(lines[2]) = <<"temperature">>
    /\ MapGet(parsed.Parameters, <<"stop">>).elems = << <<"A">>, <<"B", SP, "C">> >>
    /\ MapGet(parsed.Parameters, <<"temperature">>).elems = << <<"0", ".", "8">> >>

----------------------------------------------------------------------------
(* package regexp, for the patterns of convertGoTemplateToJinja: a pattern *)
(* is a sequence of literal symbols and of the two classes \s* and \s+.    *)

WS0 == "\\s*"
WS1 == "\\s+"

RECURSIVE SkipSpace(_, _)
SkipSpace(s, i) ==
    IF i <= Len(s) /\ s[i] \in WhiteSpace THEN SkipSpace(s, i + 1) ELSE i

\* the index after the match of pat[j..] that starts at s[i], 0 if none
RECURSIVE MatchFrom(_, _, _, _)
MatchFrom(s, i, pat, j) ==
    IF j > Len(pat) THEN i
    ELSE IF pat[j] = WS0 THEN MatchFrom(s, SkipSpace(s, i), pat, j + 1)
    ELSE IF pat[j] = WS1
         THEN IF i <= Len(s) /\ s[i] \in WhiteSpace
              THEN MatchFrom(s, SkipSpace(s, i), pat, j + 1)
              ELSE 0
    ELSE IF i <= Len(s) /\ s[i] = pat[j] THEN MatchFrom(s, i + 1, pat, j + 1)
    ELSE 0

RECURSIVE ReplaceFrom(_, _, _, _)
ReplaceFrom(s, i, pat, repl) ==
    IF i > Len(s) THEN <<>>
    ELSE LET e == MatchFrom(s, i, pat, 1)
         IN  IF e # 0 THEN repl \o ReplaceFrom(s, e, pat, repl)
             ELSE <<s[i]>> \o ReplaceFrom(s, i + 1, pat, repl)

RECURSIVE ReplaceFirstFrom(_, _, _, _)
ReplaceFirstFrom(s, i, pat, repl) ==
    IF i > Len(s) THEN <<>>
    ELSE LET e == MatchFrom(s, i, pat, 1)
         IN  IF e # 0 THEN repl \o SubSeq(s, e, Len(s))
             ELSE <<s[i]>> \o ReplaceFirstFrom(s, i + 1, pat, repl)

\* a plausible slip: only the first match is replaced
ReplaceFirstString(s, pat, repl) == ReplaceFirstFrom(s, 1, pat, repl)

\* (*Regexp).ReplaceAllString: every leftmost non-overlapping match
ReplaceAllString(s, pat, repl) == ReplaceFrom(s, 1, pat, repl)

----------------------------------------------------------------------------
(* convertGoTemplateToJinja *)

reIfSystem == <<"{", "{", WS0, "if", WS1, ".System", WS0, "}", "}">>
reIfPrompt == <<"{", "{", WS0, "if", WS1, ".Prompt", WS0, "}", "}">>
\* a plausible slip: the pattern without the \s* classes
reEndTight == <<"{", "{", "end", "}", "}">>
reEnd == <<"{", "{", WS0, "end", WS0, "}", "}">>
reSystem == <<"{", "{", WS0, ".System", WS0, "}", "}">>
rePrompt == <<"{", "{", WS0, ".Prompt", WS0, "}", "}">>
reResponse == <<"{", "{", WS0, ".Response", WS0, "}", "}">>

JinjaIfSystem == <<"{", "%", SP, "if", SP, "system_message", SP, "%", "}">>
JinjaIfUser == <<"{", "%", SP, "if", SP, "user_message", SP, "%", "}">>
JinjaEndif == <<"{", "%", SP, "endif", SP, "%", "}">>
JinjaSystem == <<"{", "{", SP, "system_message", SP, "}", "}">>
JinjaUser == <<"{", "{", SP, "user_message", SP, "}", "}">>
JinjaResponse == <<"{", "{", SP, "model_response", SP, "}", "}">>

convertGoTemplateToJinja(t) ==
    LET r1 == ReplaceAllString(t, reIfSystem, JinjaIfSystem)
        r2 == ReplaceAllString(r1, reIfPrompt, JinjaIfUser)
        r3 == ReplaceAllString(r2, reEnd, JinjaEndif)
        r4 == ReplaceAllString(r3, reSystem, JinjaSystem)
        r5 == ReplaceAllString(r4, rePrompt, JinjaUser)
    IN  ReplaceAllString(r5, reResponse, JinjaResponse)

\* the pieces the templates are put together from
TemplatePieces ==
    { <<"{", "{">>, <<"}", "}">>, <<"{">>, <<"}">>, <<SP>>, <<"x">>,
      <<"{", "{", "if", SP>>,
      <<"{", "{", NL, "if">>,
      <<".System", "}", "}">>,
      <<".Prompt", SP, "}", "}">>,
      <<".Response", "}", "}">>,
      <<".System">>, <<".Prompt">>, <<"end">>,
      <<"{", "{", SP, "end", SP, "}", "}">>,
      <<"{", "{", ".Response", SP, SP, "}", "}">> }

RECURSIVE Concat(_)
Concat(ss) == IF ss = <<>> THEN <<>> ELSE Head(ss) \o Concat(Tail(ss))

Templates == {Concat(ps) : ps \in SeqsUpTo(TemplatePieces, MaxPieces)}

InitTranslate ==
    /\ pc = "translate"
    /\ goTemplate \in Templates
    /\ result = <<>> /\ result2 = <<>>
    /\ modelfileContent = <<>> /\ ParserIdle
    /\ parsed = EmptyParsed /\ err = "none"
    /\ MapperIdle /\ RestIdle

\* one call of convertGoTemplateToJinja on the template
Translate ==
    /\ pc = "translate"
    /\ result' = convertGoTemplateToJinja(goTemplate)
    /\ pc' = "translated"
    /\ UNCHANGED <<parserVars, parsed, err, restVars, goTemplate, result2, config, todo>>

\* a second call, on the value of the first
TranslateAgain ==
    /\ pc = "translated"
    /\ result2' = convertGoTemplateToJinja(result)
    /\ pc' = "retranslated"
    /\ UNCHANGED <<parserVars, parsed, err, restVars, goTemplate, result, config, todo>>

NextTranslate == Translate \/ TranslateAgain

SpecTranslate == InitTranslate /\ [][NextTranslate]_vars

----------------------------------------------------------------------------
(* Properties of convertGoTemplateToJinja, checked under SpecTranslate *)

Patterns == {reIfSystem, reIfPrompt, reEnd, reSystem, rePrompt, reResponse}

\* C5: the translator is idempotent: translating its own output changes
\* nothing, and none of the six patterns matches anywhere in the output.
C5_Idempotent ==
    /\ pc = "retranslated" => result2 = result
    /\ pc \in {"translated", "retranslated"} =>
           \A pat \in Patterns : \A i \in 1..Len(result) : MatchFrom(result, i, pat, 1) = 0

C5_Witness ==
    /\ pc = "retranslated"
    /\ goTemplate = <<"{", "{", "if", SP, ".System", "}", "}", "{", "{", SP, "end", SP, "}", "}">>
    /\ result = JinjaIfSystem \o JinjaEndif
    /\ result2 = result

\* The six source markers, each given by the words between its braces, and
\* the target token of each.
MarkerWords ==
    { <<"if", ".System">>, <<"if", ".Prompt">>, <<"end">>,
      <<".System">>, <<".Prompt">>, <<".Response">> }

Target(w) ==
    CASE w = <<"if", ".System">> -> JinjaIfSystem
      [] w = <<"if", ".Prompt">> -> JinjaIfUser
      [] w = <<"end">> -> JinjaEndif
      [] w = <<".System">> -> JinjaSystem
      [] w = <<".Prompt">> -> JinjaUser
      [] w = <<".Response">> -> JinjaResponse

NotSpace(c) == c \notin WhiteSpace

\* s[i..e] is the marker with words w: two opening braces, the words with
\* any white space around them (and some between two words), two closing
\* braces
IsMarker(s, i, e, w) ==
    /\ e >= i + 4 /\ e <= Len(s)
    /\ s[i] = "{" /\ s[i + 1] = "{" /\ s[e - 1] = "}" /\ s[e] = "}"
    /\ SelectSeq(SubSeq(s, i + 2, e - 2), NotSpace) = w
    /\ Len(w) = 2 => ~Contains(SubSeq(s, i + 2, e - 2), w)

MarkerEnds(s, i) == {e \in (i + 4)..Len(s) : \E w \in MarkerWords : IsMarker(s, i, e, w)}

\* the template with every marker occurrence replaced by its target token
\* and every other symbol copied, in one pass from the left
RECURSIVE MarkersReplaced(_, _)
MarkersReplaced(s, i) ==
    IF i > Len(s) THEN <<>>
    ELSE IF MarkerEnds(s, i) # {}
         THEN LET e == MinOf(MarkerEnds(s, i))
                  w == CHOOSE w \in MarkerWords : IsMarker(s, i, e, w)
              IN  Target(w) \o MarkersReplaced(s, e + 1)
         ELSE <<s[i]>> \o MarkersReplaced(s, i + 1)

\* C6: the translator replaces every occurrence of the six source markers,
\* whatever white space they hold inside the braces, by its target token and
\* leaves every other symbol unchanged and in place; a template with no
\* marker comes back unchanged.
C6_MarkersReplaced ==
    pc \in {"translated", "retranslated"} =>
        /\ result = MarkersReplaced(goTemplate, 1)
        /\ (\A i \in 1..Len(goTemplate) : MarkerEnds(goTemplate, i) = {}) => result = goTemplate

C6_Witness ==
    /\ pc = "translated"
    /\ goTemplate = <<"{", "{", "{", ".Response", SP, SP, "}", "}", "x">>
    /\ result = <<"{">> \o JinjaResponse \o <<"x">>

----------------------------------------------------------------------------
(* package strconv, for decimal numerals: an optional sign, digits, and    *)
(* for ParseFloat at most one point.  A float64 is kept as mant / 10^scale *)
(* with no trailing zero in the fraction.                                  *)

Digits == {"0", "1", "2", "3", "4", "5", "6", "7", "8", "9"}

DigitVal(c) ==
    CASE c = "0" -> 0 [] c = "1" -> 1 [] c = "2" -> 2 [] c = "3" -> 3 [] c = "4" -> 4
      [] c = "5" -> 5 [] c = "6" -> 6 [] c = "7" -> 7 [] c = "8" -> 8 [] c = "9" -> 9

RECURSIVE DecValue(_)
DecValue(ds) ==
    IF ds = <<>> THEN 0
    ELSE 10 * DecValue(SubSeq(ds, 1, Len(ds) - 1)) + DigitVal(ds[Len(ds)])

IsSign(c) == c \in {"+", "-"}
Unsigned(s) == IF s # <<>> /\ IsSign(s[1]) THEN Tail(s) ELSE s
SignOf(s) == IF s # <<>> /\ s[1] = "-" THEN -1 ELSE 1

RECURSIVE Normalise(_, _)
Normalise(mant, scale) ==
    IF scale > 0 /\ mant % 10 = 0 THEN Normalise(mant \div 10, scale - 1)
    ELSE [mant |-> mant, scale |-> scale]

IsDigit(c) == c \in Digits

\* strconv.Atoi
Atoi(s) ==
    LET u == Unsigned(s)
    IN  IF u # <<>> /\ \A i \in 1..Len(u) : u[i] \in Digits
        THEN [ok |-> TRUE, val |-> [kind |-> "int", int |-> SignOf(s) * DecValue(u)]]
        ELSE [ok |-> FALSE, val |-> [kind |-> "int", int |-> 0]]

\* strconv.ParseFloat(s, 64)
ParseFloat(s) ==
    LET u == Unsigned(s)
        points == {i \in 1..Len(u) : u[i] = "."}
        ds == SelectSeq(u, IsDigit)
    IN  IF /\ \A i \in 1..Len(u) : u[i] \in Digits \cup {"."}
           /\ Cardinality(points) <= 1
           /\ ds # <<>>
        THEN LET scale == IF points = {} THEN 0 ELSE Len(u) - MinOf(points)
                 n == Normalise(DecValue(ds), scale)
             IN  [ok |-> TRUE,
                  val |-> [kind |-> "float64", mant |-> SignOf(s) * n.mant, scale |-> n.scale]]
        ELSE [ok |-> FALSE, val |-> [kind |-> "float64", mant |-> 0, scale |-> 0]]

----------------------------------------------------------------------------
(* extractBOSToken, extractEOSToken *)

bosTokens == << <<"[gMASK]">>, <<"<s>">>, <<"<|begin_of_text|>">>, <<"<|im_start|>">> >>
eosTokens == << <<"<|endoftext|>">>, <<"</s>">>, <<"<|end_of_text|>">>, <<"<|im_end|>">>,
                <<"<|user|>">> >>

extractBOSToken(template) ==
    LET hits == {i \in 1..Len(bosTokens) : HasPrefix(template, bosTokens[i])}
    IN  IF hits = {} THEN <<>> ELSE bosTokens[MinOf(hits)]

\* a plausible slip: the token met first in the template wins
extractEOSTokenByPosition(template) ==
    LET at == {p \in 1..Len(template) :
                  \E i \in 1..Len(eosTokens) : <<template[p]>> = eosTokens[i]}
    IN  IF at = {} THEN <<>> ELSE <<template[MinOf(at)]>>

extractEOSToken(template) ==
    LET hits == {i \in 1..Len(eosTokens) : Contains(template, eosTokens[i])}
    IN  IF hits = {} THEN <<>> ELSE eosTokens[MinOf(hits)]

----------------------------------------------------------------------------
(* ConvertToLMStudioFormat *)

ConfigField(key, value) == [Key |-> key, Value |-> value]

\* lines 393-409: the JinjaPromptTemplate value
JinjaPromptTemplate(p) ==
    [Type |-> "jinja",
     JinjaPromptTemplate |->
         [Template |-> convertGoTemplateToJinja(p.Template),
          BosToken |-> extractBOSToken(p.Template),
          EosToken |-> extractEOSToken(p.Template),
          InputConfig |-> [MessagesConfig |-> [ContentConfig |-> [Type |-> "string"]],
                           UseTools |-> FALSE]],
     StopStrings |-> MapGet(p.Parameters, <<"stop">>)]

\* a plausible slip: the prompt-template field is written with no template
TemplateFieldsAlways(cfg, p) ==
    [cfg EXCEPT !.PredictionFields =
         Append(@, ConfigField("llm.prediction.promptTemplate", JinjaPromptTemplate(p)))]

\* lines 376-415: the template, when there is one, is the first field
TemplateFields(cfg, p) ==
    IF p.Template # <<>>
    THEN [cfg EXCEPT !.PredictionFields =
              Append(@, ConfigField("llm.prediction.promptTemplate", JinjaPromptTemplate(p)))]
    ELSE cfg

\* a plausible slip: the error of the conversion is not looked at
AddPredictionAnyway(cfg, key, r) ==
    [cfg EXCEPT !.PredictionFields = Append(@, ConfigField(key, r.val))]

AddPrediction(cfg, key, r) ==
    IF r.ok THEN [cfg EXCEPT !.PredictionFields = Append(@, ConfigField(key, r.val))] ELSE cfg

\* a plausible slip: the load field is appended twice
AddLoadTwice(cfg, key, r) ==
    IF r.ok
    THEN [cfg EXCEPT !.LoadFields = @ \o <<ConfigField(key, r.val), ConfigField(key, r.val)>>]
    ELSE cfg

AddLoad(cfg, key, r) ==
    IF r.ok THEN [cfg EXCEPT !.LoadFields = Append(@, ConfigField(key, r.val))] ELSE cfg

\* lines 428-473: the switch on the parameter name
SwitchParam(cfg, paramKey, value) ==
    CASE paramKey = <<"temperature">> ->
             AddPrediction(cfg, "llm.prediction.temperature", ParseFloat(value))
      [] paramKey = <<"top_p">> ->
             AddPrediction(cfg, "llm.prediction.topP", ParseFloat(value))
      [] paramKey = <<"top_k">> ->
             AddPrediction(cfg, "llm.prediction.topK", Atoi(value))
      [] paramKey = <<"repeat_penalty">> ->
             AddPrediction(cfg, "llm.prediction.repeatPenalty", ParseFloat(value))
      [] paramKey = <<"min_p">> ->
             AddPrediction(cfg, "llm.prediction.minP", ParseFloat(value))
      [] paramKey = <<"num_ctx">> ->
             AddLoad(cfg, "llm.load.contextLength", Atoi(value))
      [] OTHER -> cfg

\* a plausible slip: the last value of the list is taken
MapParameterLast(cfg, paramKey, values) ==
    IF paramKey = <<"stop">> THEN cfg
    ELSE IF Len(values) > 0 THEN SwitchParam(cfg, paramKey, values[Len(values)])
    ELSE cfg

\* lines 418-475: the body of the range loop for one entry of the mapping
MapParameter(cfg, paramKey, values) ==
    IF paramKey = <<"stop">> THEN cfg
    ELSE IF Len(values) > 0 THEN SwitchParam(cfg, paramKey, values[1])
    ELSE cfg

ParamNames ==
    { <<"temperature">>, <<"top_p">>, <<"top_k">>, <<"repeat_penalty">>, <<"min_p">>,
      <<"num_ctx">>, <<"stop">>, <<"seed">> }

ValueLists ==
    { <<>>,
      << <<"0", ".", "8">> >>, << <<"4", "0">> >>, << <<"a", "b", "c">> >>,
      << <<"0", ".", "8">>, <<"4", "0">> >>,
      << <<"4", "0">>, <<"0", ".", "8">> >>,
      << <<"a", "b", "c">>, <<"4", "0">> >>,
      << <<"4", "0">>, <<"a", "b", "c">> >> }

ParameterMaps ==
    UNION {[names -> ValueLists] : names \in {ns \in SUBSET ParamNames : Cardinality(ns) <= MaxParams}}

MapperTemplates ==
    { <<>>,
      <<"{", "{", SP, ".Prompt", SP, "}", "}">>,
      <<"<s>", "<|system|>", "{", "{", ".System", "}", "}", "<|user|>",
        "{", "{", ".Prompt", "}", "}", "</s>">> }

MapperSystems == { <<>>, <<"S", "y", "s">> }

InitFormat ==
    /\ pc = "format"
    /\ parsed \in [Template : MapperTemplates, System : MapperSystems, Parameters : ParameterMaps]
    /\ config = EmptyConfig /\ todo = {}
    /\ err = "none"
    /\ modelfileContent = <<>> /\ ParserIdle
    /\ TranslatorIdle /\ RestIdle

\* lines 371-415: the empty document, then the template field
FormatTemplate ==
    /\ pc = "format"
    /\ config' = TemplateFields(EmptyConfig, parsed)
    /\ todo' = DOMAIN parsed.Parameters
    /\ pc' = "range"
    /\ UNCHANGED <<parserVars, parsed, err, restVars, goTemplate, result, result2>>

\* lines 418-475: the range loop visits the entries in an order of its own
FormatParam ==
    /\ pc = "range"
    /\ \E paramKey \in todo :
           /\ config' = MapParameter(config, paramKey, parsed.Parameters[paramKey])
           /\ todo' = todo \ {paramKey}
    /\ UNCHANGED <<pc, parserVars, parsed, err, restVars, goTemplate, result, result2>>

\* line 477
FormatReturn ==
    /\ pc = "range" /\ todo = {}
    /\ pc' = "formatted" /\ err' = "nil"
    /\ UNCHANGED <<parserVars, parsed, restVars, goTemplate, result, result2, config, todo>>

NextFormat == FormatTemplate \/ FormatParam \/ FormatReturn

SpecFormat == InitFormat /\ [][NextFormat]_vars

----------------------------------------------------------------------------
(* Properties of ConvertToLMStudioFormat, checked under SpecFormat *)

Formatted == pc = "formatted"

WithKey(fields, key) == {i \in 1..Len(fields) : fields[i].Key = key}

PromptTemplates ==
    {config.PredictionFields[i].Value :
        i \in WithKey(config.PredictionFields, "llm.prediction.promptTemplate")}

\* C7: with a non-empty System and a non-empty Template, the template string
\* of the prompt-template field is the system string, a newline, and the
\* translated template.
C7_SystemPrepended ==
    (Formatted /\ parsed.System # <<>> /\ parsed.Template # <<>>) =>
        /\ PromptTemplates # {}
        /\ \A v \in PromptTemplates :
               v.JinjaPromptTemplate.Template =
                   parsed.System \o <<NL>> \o convertGoTemplateToJinja(parsed.Template)

\* The fixed table: the key and the group of each name, and the numeric type
\* its value is read as.
FloatNames == { <<"temperature">>, <<"top_p">>, <<"repeat_penalty">>, <<"min_p">> }
IntNames == { <<"top_k">>, <<"num_ctx">> }
TableNames == FloatNames \cup IntNames

TableKey(name) ==
    CASE name = <<"temperature">> -> "llm.prediction.temperature"
      [] name = <<"top_p">> -> "llm.prediction.topP"
      [] name = <<"top_k">> -> "llm.prediction.topK"
      [] name = <<"repeat_penalty">> -> "llm.prediction.repeatPenalty"
      [] name = <<"min_p">> -> "llm.prediction.minP"
      [] name = <<"num_ctx">> -> "llm.load.contextLength"

Numeric(name, value) == IF name \in IntNames THEN Atoi(value) ELSE ParseFloat(value)

OwnGroup(name) ==
    IF name = <<"num_ctx">> THEN config.LoadFields ELSE config.PredictionFields
OtherGroup(name) ==
    IF name = <<"num_ctx">> THEN config.PredictionFields ELSE config.LoadFields

\* C8: a table name whose first value is numeric (of the type the table
\* gives the name) has exactly one field, built from the first value only:
\* in the prediction group for temperature, top_p, top_k, repeat_penalty and
\* min_p, in the load group and not in the prediction group for num_ctx.
C8_FirstValueOnly ==
    Formatted =>
        \A name \in TableNames \cap DOMAIN parsed.Parameters :
            LET values == parsed.Parameters[name]
            IN  (values # <<>> /\ Numeric(name, values[1]).ok) =>
                    /\ Cardinality(WithKey(OwnGroup(name), TableKey(name))) = 1
                    /\ \A i \in WithKey(OwnGroup(name), TableKey(name)) :
                           OwnGroup(name)[i].Value = Numeric(name, values[1]).val
                    /\ WithKey(OtherGroup(name), TableKey(name)) = {}

C8_Witness ==
    /\ Formatted
    /\ DOMAIN parsed.Parameters = { <<"temperature">>, <<"num_ctx">> }
    /\ parsed.Parameters[<<"temperature">>] = << <<"0", ".", "8">>, <<"4", "0">> >>
    /\ parsed.Parameters[<<"num_ctx">>] = << <<"4", "0">>, <<"0", ".", "8">> >>
    /\ parsed.Template = <<>>
    /\ config.PredictionFields =
           << [Key |-> "llm.prediction.temperature",
               Value |-> [kind |-> "float64", mant |-> 8, scale |-> 1]] >>
    /\ config.LoadFields =
           << [Key |-> "llm.load.contextLength", Value |-> [kind |-> "int", int |-> 40]] >>

\* the entry adds nothing: its name is not in the table, or its first value
\* is not numeric, or it has no value
Dropped(name, values) ==
    \/ name \notin TableNames
    \/ values = <<>>
    \/ ~Numeric(name, values[1]).ok

Visited == CHOOSE k \in todo : k \notin todo'

\* C9: ConvertToLMStudioFormat returns no error; an entry whose first value
\* is not numeric, or whose name is not in the table, adds no field to either
\* group and leaves every field of the document as it was.
C9_DroppedSilently ==
    /\ [](Formatted =>
            /\ err = "nil"
            /\ \A name \in TableNames \cap DOMAIN parsed.Parameters :
                   Dropped(name, parsed.Parameters[name]) =>
                       /\ WithKey(config.PredictionFields, TableKey(name)) = {}
                       /\ WithKey(config.LoadFields, TableKey(name)) = {}
            /\ \A i \in 1..Len(config.PredictionFields) :
                   config.PredictionFields[i].Key \in
                       {"llm.prediction.promptTemplate"} \cup {TableKey(n) : n \in TableNames}
            /\ \A i \in 1..Len(config.LoadFields) :
                   config.LoadFields[i].Key = "llm.load.contextLength")
    /\ [][(pc = "range" /\ todo' # todo /\ Dropped(Visited, parsed.Parameters[Visited]))
              => config' = config]_vars

C9_Witness ==
    /\ Formatted /\ err = "nil"
    /\ DOMAIN parsed.Parameters = { <<"temperature">>, <<"seed">> }
    /\ parsed.Parameters[<<"temperature">>] = << <<"a", "b", "c">>, <<"4", "0">> >>
    /\ parsed.Parameters[<<"seed">>] = << <<"4", "0">> >>
    /\ parsed.Template # <<>>
    /\ Len(config.PredictionFields) = 1
    /\ config.PredictionFields[1].Key = "llm.prediction.promptTemplate"
    /\ config.LoadFields = <<>>

\* C10: with a template, the stop-sequence field of the prompt-template
\* object is the ordered list of the stop values, and an empty list, not
\* null, when the mapping has no stop entry.
C10_StopList ==
    (Formatted /\ parsed.Template # <<>>) =>
        /\ PromptTemplates # {}
        /\ \A v \in PromptTemplates :
               /\ ~v.StopStrings.isNil
               /\ v.StopStrings.elems =
                      IF <<"stop">> \in DOMAIN parsed.Parameters
                      THEN parsed.Parameters[<<"stop">>] ELSE <<>>

----------------------------------------------------------------------------
(* Properties of the capture sub-machines of ParseOllamaModelfile, checked *)
(* under SpecParse                                                         *)

\* C15: in every state of the parser at most one capture is active:
\* inTemplate and inSystem are never both true.
C15_OneCaptureActive == ~(inTemplate /\ inSystem)

Line == lines[idx]
Trimmed == TrimSpace(lines[idx])

TemplateTerminator ==
    \/ inMultilineTemplate /\ HasSuffix(Trimmed, QQQ)
    \/ inDoubleQuotedTemplate /\ HasSuffix(Trimmed, <<Q>>)

SystemTerminator ==
    \/ inMultilineSystem /\ HasSuffix(Trimmed, QQQ)
    \/ inDoubleQuotedSystem /\ HasSuffix(Trimmed, <<Q>>)

templateMachine == <<inTemplate, inMultilineTemplate, inDoubleQuotedTemplate>>
systemMachine == <<inSystem, inMultilineSystem, inDoubleQuotedSystem>>

\* C16: while a capture is active a line that is not its terminator is
\* appended verbatim to its text and changes nothing else (the other field,
\* the parameter mapping, either sub-machine), whatever the line starts with;
\* the terminator line returns the sub-machine to idle.
C16_CaptureFrame ==
    [][ /\ (AtLine /\ inTemplate /\ ~TemplateTerminator)
            => /\ templateLines' = Append(templateLines, Line)
               /\ UNCHANGED <<parsed, systemLines, systemMachine, templateMachine>>
        /\ (AtLine /\ inTemplate /\ TemplateTerminator) => ~inTemplate'
        /\ (AtLine /\ inSystem /\ ~SystemTerminator)
            => /\ systemLines' = Append(systemLines, Line)
               /\ UNCHANGED <<parsed, templateLines, templateMachine, systemMachine>>
        /\ (AtLine /\ inSystem /\ SystemTerminator) => ~inSystem' ]_vars

\* trimmed is  kw """text"""  with the value opened and closed on the line
\* and no quote inside the text
SameLineTriple(trimmed, kw) ==
    /\ Len(trimmed) >= 8
    /\ HasPrefix(trimmed, <<kw, SP>> \o QQQ)
    /\ HasSuffix(trimmed, QQQ)
    /\ \A i \in 6..(Len(trimmed) - 3) : trimmed[i] # Q

TripleText(trimmed) == SubSeq(trimmed, 6, Len(trimmed) - 3)

\* C17: a line TEMPLATE """text""" (SYSTEM """text""") met outside a capture
\* gives exactly text, with no quote in it, as the template (system) and
\* leaves the sub-machine idle.
C17_SameLineTriple ==
    [][ /\ (AtLine /\ ~inTemplate /\ ~inSystem /\ SameLineTriple(Trimmed, "TEMPLATE"))
            => /\ ~inTemplate'
               /\ \/ parsed'.Template = TripleText(Trimmed)
                  \/ templateLines' = Append(templateLines, TripleText(Trimmed))
        /\ (AtLine /\ ~inTemplate /\ ~inSystem /\ SameLineTriple(Trimmed, "SYSTEM"))
            => /\ ~inSystem'
               /\ \/ parsed'.System = TripleText(Trimmed)
                  \/ systemLines' = Append(systemLines, TripleText(Trimmed)) ]_vars

ExactlyOne(a, b) == (a /\ ~b) \/ (b /\ ~a)

\* C18: each sub-machine is in exactly one of idle, capturing-triple-quoted,
\* capturing-double-quoted: inTemplate holds iff exactly one of
\* inMultilineTemplate and inDoubleQuotedTemplate holds, and neither holds
\* when it does not (the same for the system flags); a capture is closed only
\* by a line ending in the quote of the kind that opened it.
C18_ThreeStates ==
    /\ [](/\ inTemplate <=> ExactlyOne(inMultilineTemplate, inDoubleQuotedTemplate)
          /\ ~inTemplate => (~inMultilineTemplate /\ ~inDoubleQuotedTemplate)
          /\ inSystem <=> ExactlyOne(inMultilineSystem, inDoubleQuotedSystem)
          /\ ~inSystem => (~inMultilineSystem /\ ~inDoubleQuotedSystem))
    /\ [][ /\ (inTemplate /\ ~inTemplate') => (AtLine /\ TemplateTerminator)
           /\ (inSystem /\ ~inSystem') => (AtLine /\ SystemTerminator)
           /\ (inMultilineTemplate /\ inTemplate') => inMultilineTemplate'
           /\ (inDoubleQuotedTemplate /\ inTemplate') => inDoubleQuotedTemplate'
           /\ (inMultilineSystem /\ inSystem') => inMultilineSystem'
           /\ (inDoubleQuotedSystem /\ inSystem') => inDoubleQuotedSystem' ]_vars

\* a triple-quoted capture has met a line ending in one double quote and
\* stayed open, then its own terminator closed it
C18_Witness ==
    /\ Returned /\ Len(lines) = 3
    /\ lines[1] = <<"TEMPLATE", SP, Q, Q, Q, "a">>
    /\ lines[2] = <<"a", Q>>
    /\ lines[3] = <<"a", Q, Q, Q>>
    /\ ~inTemplate /\ ~inMultilineTemplate /\ ~inDoubleQuotedTemplate
    /\ parsed.Template = <<"a", NL, "a", Q, NL, "a">>

----------------------------------------------------------------------------
(* extractBOSToken and extractEOSToken on their own *)

TokenPieces ==
    { <<"[gMASK]">>, <<"<s>">>, <<"<|begin_of_text|>">>, <<"<|im_start|>">>,
      <<"<|endoftext|>">>, <<"</s>">>, <<"<|end_of_text|>">>, <<"<|im_end|>">>,
      <<"<|user|>">>, <<"x">>, <<"{", "{", ".Prompt", "}", "}">> }

TokenTemplates == {Concat(ps) : ps \in SeqsUpTo(TokenPieces, MaxPieces)}

InitTokens ==
    /\ pc = "tokens"
    /\ templateArg \in TokenTemplates
    /\ bosToken = <<>> /\ eosToken = <<>>
    /\ modelfileContent = <<>> /\ ParserIdle
    /\ parsed = EmptyParsed /\ err = "none"
    /\ TranslatorIdle /\ MapperIdle /\ PresetIdle /\ ExportIdle

\* one call of extractBOSToken
ExtractBOS ==
    /\ pc = "tokens"
    /\ bosToken' = extractBOSToken(templateArg)
    /\ pc' = "bos"
    /\ UNCHANGED <<parserVars, parsed, err, goTemplate, result, result2, config, todo,
                   presetVars, exportVars, templateArg, eosToken>>

\* one call of extractEOSToken
ExtractEOS ==
    /\ pc = "bos"
    /\ eosToken' = extractEOSToken(templateArg)
    /\ pc' = "eos"
    /\ UNCHANGED <<parserVars, parsed, err, goTemplate, result, result2, config, todo,
                   presetVars, exportVars, templateArg, bosToken>>

NextTokens == ExtractBOS \/ ExtractEOS

SpecTokens == InitTokens /\ [][NextTokens]_vars

\* the two ordered lists
BosList == << "[gMASK]", "<s>", "<|begin_of_text|>", "<|im_start|>" >>
EosList == << "<|endoftext|>", "</s>", "<|end_of_text|>", "<|im_end|>", "<|user|>" >>

StartsWith(i) == templateArg # <<>> /\ templateArg[1] = BosList[i]
Holds(i) == \E p \in 1..Len(templateArg) : templateArg[p] = EosList[i]

\* C19: extractBOSToken gives the first token of its list the template
\* starts with, extractEOSToken the first token of its list the template
\* contains anywhere (list order, not position in the template); each gives
\* the empty string when no token of its list matches.
C19_FirstInListOrder ==
    /\ pc \in {"bos", "eos"} =>
           /\ (\A i \in 1..Len(BosList) : ~StartsWith(i)) => bosToken = <<>>
           /\ \A i \in 1..Len(BosList) :
                  (StartsWith(i) /\ \A j \in 1..(i - 1) : ~StartsWith(j))
                      => bosToken = <<BosList[i]>>
    /\ pc = "eos" =>
           /\ (\A i \in 1..Len(EosList) : ~Holds(i)) => eosToken = <<>>
           /\ \A i \in 1..Len(EosList) :
                  (Holds(i) /\ \A j \in 1..(i - 1) : ~Holds(j))
                      => eosToken = <<EosList[i]>>

C19_Witness ==
    /\ pc = "eos"
    /\ templateArg = <<"<s>", "<|user|>", "</s>">>
    /\ bosToken = <<"<s>">>
    /\ eosToken = <<"</s>">>

----------------------------------------------------------------------------
(* ConvertToLMStudioPreset *)

UpperCase == <<"A", "B", "C", "D", "E", "F", "G", "H", "I", "J", "K", "L", "M",
               "N", "O", "P", "Q", "R", "S", "T", "U", "V", "W", "X", "Y", "Z">>
LowerCase == <<"a", "b", "c", "d", "e", "f", "g", "h", "i", "j", "k", "l", "m",
               "n", "o", "p", "q", "r", "s", "t", "u", "v", "w", "x", "y", "z">>

\* strings.ToLower
ToLower(s) ==
    [i \in 1..Len(s) |->
        IF \E k \in 1..26 : UpperCase[k] = s[i]
        THEN LowerCase[CHOOSE k \in 1..26 : UpperCase[k] = s[i]]
        ELSE s[i]]

\* a plausible slip: strings.Replace with n = 1
ReplaceFirstSym(s, old, new) ==
    LET at == {i \in 1..Len(s) : s[i] = old}
    IN  [i \in 1..Len(s) |-> IF at # {} /\ i = MinOf(at) THEN new ELSE s[i]]

\* strings.ReplaceAll for one-symbol old and new
ReplaceAllSym(s, old, new) == [i \in 1..Len(s) |-> IF s[i] = old THEN new ELSE s[i]]

\* line 498
PresetIdentifier(name) == <<"@local:">> \o ToLower(ReplaceAllSym(name, SP, "-"))

\* lines 500-506
NewPreset(name) ==
    [Identifier |-> PresetIdentifier(name), Name |-> name, Changed |-> TRUE,
     OperationFields |-> <<>>, LoadFields |-> <<>>]

ThinkTags == <<"<think>", "</think>">>

\* a plausible slip: the nil slice of a missing stop entry is passed on
PresetStopStringsNil(p) == MapGet(p.Parameters, <<"stop">>)

\* lines 520-523
PresetStopStrings(p) ==
    LET stopStrings == MapGet(p.Parameters, <<"stop">>)
    IN  IF stopStrings.isNil THEN MakeSlice(<<>>) ELSE stopStrings

\* a plausible slip: the BOS token left out of beforeSystem
ManualPromptTemplateNoBos(tmpl) ==
    LET hasThinkTags == Contains(tmpl, ThinkTags)
        afterUser == IF Contains(tmpl, <<"<|assistant|>">>) THEN <<"<|assistant|>", NL>> ELSE <<>>
    IN  [BeforeSystem |-> IF Contains(tmpl, <<"<|system|>">>) THEN <<"<|system|>", NL>> ELSE <<>>,
         AfterSystem |-> <<>>,
         BeforeUser |-> IF Contains(tmpl, <<"<|user|>">>) THEN <<"<|user|>", NL>> ELSE <<>>,
         AfterUser |-> IF hasThinkTags THEN afterUser \o ThinkTags \o <<NL>> ELSE afterUser,
         BeforeAssistant |-> <<>>,
         AfterAssistant |-> <<>>]

\* lines 517, 528-565: the six boundary strings
ManualPromptTemplate(tmpl) ==
    LET bos == extractBOSToken(tmpl)
        beforeSystem == IF Contains(tmpl, <<"<|system|>">>)
                        THEN bos \o <<"<|system|>", NL>> ELSE <<>>
        beforeUser == IF Contains(tmpl, <<"<|user|>">>) THEN <<"<|user|>", NL>> ELSE <<>>
        afterUser == IF Contains(tmpl, <<"<|assistant|>">>) THEN <<"<|assistant|>", NL>> ELSE <<>>
        hasThinkTags == Contains(tmpl, ThinkTags)
    IN  [BeforeSystem |-> beforeSystem,
         AfterSystem |-> <<>>,
         BeforeUser |-> beforeUser,
         AfterUser |-> IF hasThinkTags THEN afterUser \o ThinkTags \o <<NL>> ELSE afterUser,
         BeforeAssistant |-> <<>>,
         AfterAssistant |-> <<>>]

\* lines 555-566
ManualPromptTemplateValue(tmpl) ==
    [Type |-> "manual",
     StopStrings |-> MakeSlice(<<>>),
     ManualPromptTemplate |-> ManualPromptTemplate(tmpl)]

PresetField(key, value) == [Key |-> key, Value |-> value]

\* a plausible slip: the system prompt added whenever there is one
SystemPromptFieldAlways(fields, p) ==
    IF p.System # <<>>
    THEN Append(fields, PresetField("llm.prediction.systemPrompt", p.System))
    ELSE fields

\* lines 583-588
SystemPromptField(fields, p) ==
    IF p.System # <<>> /\ ~Contains(p.Template, ThinkTags)
    THEN Append(fields, PresetField("llm.prediction.systemPrompt", p.System))
    ELSE fields

\* lines 513-590: the fields of a preset whose template is not empty
PresetFields(pre, p) ==
    LET f1 == Append(pre.OperationFields,
                     PresetField("llm.prediction.promptTemplate",
                                 ManualPromptTemplateValue(p.Template)))
        f2 == Append(f1, PresetField("llm.prediction.stopStrings", PresetStopStrings(p)))
    IN  [pre EXCEPT !.OperationFields = SystemPromptField(f2, p)]

\* ConvertToLMStudioPreset as a whole
ConvertToLMStudioPreset(p, name) ==
    IF p.Template = <<>> THEN NewPreset(name) ELSE PresetFields(NewPreset(name), p)

PresetPieces ==
    { <<"<s>">>, <<"<|system|>">>, <<"<|user|>">>, <<"<|assistant|>">>,
      <<"<think>">>, <<"</think>">>, <<NL>> }

PresetTemplates == {Concat(ps) : ps \in SeqsUpTo(PresetPieces, MaxPieces)}

StopLists == { << <<"A">> >>, << <<"B">>, <<"A">> >>, <<>> }

PresetParameterMaps ==
    UNION {[names -> StopLists] :
              names \in {ns \in SUBSET { <<"stop">>, <<"temperature">> } :
                            Cardinality(ns) <= MaxParams}}

ModelNames == { <<"M", "y", SP, "M", SP, "7", "B">>, <<"q", "-", "x">> }

InitPreset ==
    /\ pc = "preset"
    /\ parsed \in [Template : PresetTemplates, System : MapperSystems,
                   Parameters : PresetParameterMaps]
    /\ modelName \in ModelNames
    /\ preset = ZeroPreset
    /\ err = "none"
    /\ modelfileContent = <<>> /\ ParserIdle
    /\ TranslatorIdle /\ MapperIdle /\ TokensIdle /\ ExportIdle

\* lines 497-511: the empty preset, returned as it is when there is no template
PresetNew ==
    /\ pc = "preset"
    /\ preset' = NewPreset(modelName)
    /\ IF parsed.Template = <<>>
       THEN pc' = "preset_done" /\ err' = "nil"
       ELSE pc' = "preset_build" /\ err' = err
    /\ UNCHANGED <<parserVars, parsed, goTemplate, result, result2, config, todo,
                   modelName, tokenVars, exportVars>>

\* lines 513-590
PresetBuild ==
    /\ pc = "preset_build"
    /\ preset' = PresetFields(preset, parsed)
    /\ pc' = "preset_done" /\ err' = "nil"
    /\ UNCHANGED <<parserVars, parsed, goTemplate, result, result2, config, todo,
                   modelName, tokenVars, exportVars>>

NextPreset == PresetNew \/ PresetBuild

SpecPreset == InitPreset /\ [][NextPreset]_vars

----------------------------------------------------------------------------
(* Properties of ConvertToLMStudioPreset, checked under SpecPreset *)

PresetDone == pc = "preset_done"

HasSymbol(s, c) == \E i \in 1..Len(s) : s[i] = c

\* the template holds the empty-reasoning marker pair <think></think>
HasThinkPair(s) == \E i \in 1..(Len(s) - 1) : s[i] = "<think>" /\ s[i + 1] = "</think>"

Keys(fields) == [i \in 1..Len(fields) |-> fields[i].Key]

\* C11: with a non-empty template, the prediction group holds a
\* llm.prediction.systemPrompt field iff the system string is non-empty and
\* the template does not hold the empty-reasoning marker pair; its value is
\* then the system string.
C11_SystemPromptField ==
    (PresetDone /\ parsed.Template # <<>>) =>
        LET at == WithKey(preset.OperationFields, "llm.prediction.systemPrompt")
        IN  /\ at # {} <=> (parsed.System # <<>> /\ ~HasThinkPair(parsed.Template))
            /\ Cardinality(at) <= 1
            /\ \A i \in at : preset.OperationFields[i].Value = parsed.System
            /\ WithKey(preset.LoadFields, "llm.prediction.systemPrompt") = {}

C11_Witness ==
    /\ PresetDone
    /\ parsed.System = <<"S", "y", "s">>
    /\ parsed.Template = <<"<|user|>", "<think>", "</think>">>
    /\ WithKey(preset.OperationFields, "llm.prediction.systemPrompt") = {}
    /\ Len(preset.OperationFields) = 2

\* C12: with a non-empty template, the prediction group has two or three
\* fields, in the order prompt-template, stop-sequences, then optionally
\* system-prompt; the stop list of the prompt-template object is empty, and
\* llm.prediction.stopStrings holds the ordered stop values, or an empty list
\* when there are none.
C12_PredictionFields ==
    (PresetDone /\ parsed.Template # <<>>) =>
        /\ Keys(preset.OperationFields) \in
               { <<"llm.prediction.promptTemplate", "llm.prediction.stopStrings">>,
                 <<"llm.prediction.promptTemplate", "llm.prediction.stopStrings",
                   "llm.prediction.systemPrompt">> }
        /\ preset.OperationFields[1].Value.StopStrings = [isNil |-> FALSE, elems |-> <<>>]
        /\ preset.OperationFields[2].Value =
               [isNil |-> FALSE,
                elems |-> IF <<"stop">> \in DOMAIN parsed.Parameters
                          THEN parsed.Parameters[<<"stop">>] ELSE <<>>]
        /\ preset.LoadFields = <<>>

C12_Witness ==
    /\ PresetDone
    /\ parsed.Template = <<"<|user|>">>
    /\ parsed.System # <<>>
    /\ DOMAIN parsed.Parameters = { <<"temperature">> }
    /\ Len(preset.OperationFields) = 3
    /\ preset.OperationFields[2].Value = [isNil |-> FALSE, elems |-> <<>>]

\* the display name lower-cased, symbol by symbol, with a hyphen for a space
HyphenLower(name) ==
    [i \in 1..Len(name) |->
        CASE name[i] = SP -> "-"
          [] name[i] = "M" -> "m"
          [] name[i] = "B" -> "b"
          [] OTHER -> name[i]]

\* C13: with an empty template the preset is returned without error with
\* both field groups empty, the display name as name and "@local:" followed
\* by the lower-cased, hyphenated display name as identifier, whatever the
\* system string and the parameters are.
C13_EmptyTemplate ==
    (PresetDone /\ parsed.Template = <<>>) =>
        /\ err = "nil"
        /\ preset.OperationFields = <<>> /\ preset.LoadFields = <<>>
        /\ preset.Name = modelName
        /\ preset.Identifier = <<"@local:">> \o HyphenLower(modelName)

C13_Witness ==
    /\ PresetDone /\ parsed.Template = <<>>
    /\ parsed.System # <<>> /\ <<"stop">> \in DOMAIN parsed.Parameters
    /\ modelName = <<"M", "y", SP, "M", SP, "7", "B">>
    /\ preset.Identifier = <<"@local:", "m", "y", "-", "m", "-", "7", "b">>
    /\ preset.OperationFields = <<>> /\ preset.LoadFields = <<>>

Boundaries == preset.OperationFields[1].Value.ManualPromptTemplate

\* the start-of-sequence token: the first symbol when it is one of the list
BosOf(s) == IF s # <<>> /\ HasSymbol(BosList, s[1]) THEN <<s[1]>> ELSE <<>>

\* C20 as stated: with none of the three role markers in the template all
\* six boundary strings are empty, and a boundary string that is not empty
\* holds the marker of the role it is named after.
C20_OnlyFromRoleMarkers ==
    (PresetDone /\ parsed.Template # <<>>) =>
        /\ (/\ ~HasSymbol(parsed.Template, "<|system|>")
            /\ ~HasSymbol(parsed.Template, "<|user|>")
            /\ ~HasSymbol(parsed.Template, "<|assistant|>"))
           => /\ Boundaries.BeforeSystem = <<>> /\ Boundaries.AfterSystem = <<>>
              /\ Boundaries.BeforeUser = <<>> /\ Boundaries.AfterUser = <<>>
              /\ Boundaries.BeforeAssistant = <<>> /\ Boundaries.AfterAssistant = <<>>
        /\ Boundaries.BeforeSystem # <<>> => HasSymbol(Boundaries.BeforeSystem, "<|system|>")
        /\ Boundaries.AfterSystem # <<>> => HasSymbol(Boundaries.AfterSystem, "<|system|>")
        /\ Boundaries.BeforeUser # <<>> => HasSymbol(Boundaries.BeforeUser, "<|user|>")
        /\ Boundaries.AfterUser # <<>> => HasSymbol(Boundaries.AfterUser, "<|user|>")
        /\ Boundaries.BeforeAssistant # <<>>
               => HasSymbol(Boundaries.BeforeAssistant, "<|assistant|>")
        /\ Boundaries.AfterAssistant # <<>>
               => HasSymbol(Boundaries.AfterAssistant, "<|assistant|>")

\* C20 amended: the boundary strings come from the detected markers only.
\* before-system is the start-of-sequence token, the system marker and a
\* newline when the template holds the system marker; before-user is the
\* user marker and a newline when it holds the user marker; after-user is
\* the assistant marker and a newline when it holds the assistant marker,
\* followed by the empty-reasoning pair and a newline when it holds that
\* pair; after-system, before-assistant and after-assistant are always
\* empty.  With no role marker and no empty-reasoning pair all six are empty.
C20_BoundariesFromMarkers ==
    (PresetDone /\ parsed.Template # <<>>) =>
        /\ Boundaries.BeforeSystem =
               IF HasSymbol(parsed.Template, "<|system|>")
               THEN BosOf(parsed.Template) \o <<"<|system|>", NL>> ELSE <<>>
        /\ Boundaries.BeforeUser =
               IF HasSymbol(parsed.Template, "<|user|>") THEN <<"<|user|>", NL>> ELSE <<>>
        /\ Boundaries.AfterUser =
               (IF HasSymbol(parsed.Template, "<|assistant|>")
                THEN <<"<|assistant|>", NL>> ELSE <<>>)
               \o (IF HasThinkPair(parsed.Template)
                   THEN <<"<think>", "</think>", NL>> ELSE <<>>)
        /\ Boundaries.AfterSystem = <<>>
        /\ Boundaries.BeforeAssistant = <<>>
        /\ Boundaries.AfterAssistant = <<>>
        /\ (/\ ~HasSymbol(parsed.Template, "<|system|>")
            /\ ~HasSymbol(parsed.Template, "<|user|>")
            /\ ~HasSymbol(parsed.Template, "<|assistant|>")
            /\ ~HasThinkPair(parsed.Template))
           => \A f \in DOMAIN Boundaries : Boundaries[f] = <<>>

C20_Witness ==
    /\ PresetDone
    /\ parsed.Template = <<"<s>", "<|system|>", "<|assistant|>">>
    /\ Boundaries.BeforeSystem = <<"<s>", "<|system|>", NL>>
    /\ Boundaries.AfterUser = <<"<|assistant|>", NL>>
    /\ Boundaries.BeforeUser = <<>>

----------------------------------------------------------------------------
(* ExportModelConfig and ExportModelPreset *)

\* lines 217-233: the locals of ParseOllamaModelfile before the first line
InitialLocals ==
    [templateLines |-> <<>>, systemLines |-> <<>>,
     inTemplate |-> FALSE, inMultilineTemplate |-> FALSE,
     inDoubleQuotedTemplate |-> FALSE,
     inSystem |-> FALSE, inMultilineSystem |-> FALSE,
     inDoubleQuotedSystem |-> FALSE,
     parsed |-> EmptyParsed]

\* lines 235-356: the scan loop from line i on
RECURSIVE ScanLines(_, _, _)
ScanLines(st, ls, i) ==
    IF i > Len(ls) THEN st ELSE ScanLines(LoopBody(st, ls[i]), ls, i + 1)

\* lines 216-367, as one call
ParseOllamaModelfile(content) ==
    IF content = <<>>
    THEN EmptyParsed
    ELSE LET st == ScanLines(InitialLocals, Split(content, NL), 1)
         IN  JoinCaptured(st.parsed, st.templateLines, st.systemLines)

\* lines 418-475: the range loop, visiting the entries in the given order
RECURSIVE MapParameters(_, _, _)
MapParameters(cfg, p, order) ==
    IF order = <<>>
    THEN cfg
    ELSE MapParameters(MapParameter(cfg, Head(order), p.Parameters[Head(order)]),
                       p, Tail(order))

\* the orders in which a range loop may visit the keys
Orders(S) ==
    {o \in [1..Cardinality(S) -> S] : \A i, j \in DOMAIN o : i # j => o[i] # o[j]}

\* lines 370-478, as one call
ConvertToLMStudioFormat(p, order) == MapParameters(TemplateFields(EmptyConfig, p), p, order)

\* the Modelfiles the Show request may answer with
ExportLines ==
    { <<"TEMPLATE", SP, Q, "<s>", "<|system|>", "<|user|>", Q>>,
      <<"SYSTEM", SP, Q, "b", Q>>,
      <<"PARAMETER", SP, "stop", SP, Q, "A", Q>>,
      <<"PARAMETER", SP, "temperature", SP, "0", ".", "8">> }

ExportSources == {Join(ls, NL) : ls \in SeqsUpTo(ExportLines, 2)}

Call(name, ok) == [call |-> name, ok |-> ok]

\* lines 203 and 211: the path of the preset file; outputPath for the config
PresetPath(name) == <<"~", "/.lmstudio/config-presets/">> \o name \o <<".preset.json">>

OutputPath == <<"out.json">>

InitExport ==
    /\ pc = "export"
    /\ exportFn \in {"config", "preset"}
    /\ modelName \in ModelNames
    /\ steps = <<>> /\ files = <<>>
    /\ modelfileContent = <<>> /\ ParserIdle
    /\ parsed = EmptyParsed /\ err = "none"
    /\ preset = ZeroPreset
    /\ TranslatorIdle /\ MapperIdle /\ TokensIdle

\* a plausible slip: the error of the Show request is not returned
ExportFetchNoReturn ==
    /\ pc = "export"
    /\ \E ok \in BOOLEAN :
           /\ steps' = Append(steps, Call("Show", ok))
           /\ modelfileContent' \in IF ok THEN ExportSources ELSE { <<>> }
           /\ pc' = "fetched" /\ err' = err
    /\ UNCHANGED <<lines, idx, templateLines, systemLines,
                   inTemplate, inMultilineTemplate, inDoubleQuotedTemplate,
                   inSystem, inMultilineSystem, inDoubleQuotedSystem, outside,
                   parsed, goTemplate, result, result2, config, todo,
                   presetVars, tokenVars, exportFn, files>>

\* lines 78-87 and 170-179: the Show request and its error
ExportFetch ==
    /\ pc = "export"
    /\ \E ok \in BOOLEAN :
           /\ steps' = Append(steps, Call("Show", ok))
           /\ IF ok
              THEN /\ modelfileContent' \in ExportSources
                   /\ pc' = "fetched" /\ err' = err
              ELSE /\ modelfileContent' = modelfileContent
                   /\ pc' = "returned" /\ err' = "failed to get model info"
    /\ UNCHANGED <<lines, idx, templateLines, systemLines,
                   inTemplate, inMultilineTemplate, inDoubleQuotedTemplate,
                   inSystem, inMultilineSystem, inDoubleQuotedSystem, outside,
                   parsed, goTemplate, result, result2, config, todo,
                   presetVars, tokenVars, exportFn, files>>

\* lines 89-97 and 181-189: ParseOllamaModelfile, whose error is always nil
ExportParse ==
    /\ pc = "fetched"
    /\ parsed' = ParseOllamaModelfile(modelfileContent)
    /\ steps' = Append(steps, Call("ParseOllamaModelfile", TRUE))
    /\ pc' = "exp_parsed"
    /\ UNCHANGED <<parserVars, err, goTemplate, result, result2, config, todo,
                   presetVars, tokenVars, exportFn, files>>

\* lines 99-103 and 191-195: the conversion, whose error is always nil
ExportConvert ==
    /\ pc = "exp_parsed"
    /\ IF exportFn = "config"
       THEN /\ \E order \in Orders(DOMAIN parsed.Parameters) :
                   config' = ConvertToLMStudioFormat(parsed, order)
            /\ preset' = preset
            /\ steps' = Append(steps, Call("ConvertToLMStudioFormat", TRUE))
            /\ pc' = "write"
       ELSE /\ preset' = ConvertToLMStudioPreset(parsed, modelName)
            /\ config' = config
            /\ steps' = Append(steps, Call("ConvertToLMStudioPreset", TRUE))
            /\ pc' = "home"
    /\ UNCHANGED <<parserVars, parsed, err, goTemplate, result, result2, todo,
                   modelName, tokenVars, exportFn, files>>

\* lines 198-201
ExportHome ==
    /\ pc = "home"
    /\ \E ok \in BOOLEAN :
           /\ steps' = Append(steps, Call("UserHomeDir", ok))
           /\ IF ok
              THEN pc' = "mkdir" /\ err' = err
              ELSE pc' = "returned" /\ err' = "failed to get home directory"
    /\ UNCHANGED <<parserVars, parsed, goTemplate, result, result2, config, todo,
                   presetVars, tokenVars, exportFn, files>>

\* lines 203-208
ExportMkdir ==
    /\ pc = "mkdir"
    /\ \E ok \in BOOLEAN :
           /\ steps' = Append(steps, Call("MkdirAll", ok))
           /\ IF ok
              THEN pc' = "write" /\ err' = err
              ELSE pc' = "returned" /\ err' = "failed to create preset directory"
    /\ UNCHANGED <<parserVars, parsed, goTemplate, result, result2, config, todo,
                   presetVars, tokenVars, exportFn, files>>

\* lines 481-493 and 594-606: WriteLMStudioConfig, WriteLMStudioPreset
ExportWrite ==
    /\ pc = "write"
    /\ LET doc == IF exportFn = "config" THEN config ELSE preset
           path == IF exportFn = "config" THEN OutputPath ELSE PresetPath(modelName)
       IN  \E marshalled \in BOOLEAN, written \in BOOLEAN :
               IF ~marshalled
               THEN /\ steps' = Append(steps, Call("MarshalIndent", FALSE))
                    /\ files' = files
                    /\ err' = "failed to marshal JSON"
               ELSE /\ steps' = steps \o <<Call("MarshalIndent", TRUE),
                                           Call("WriteFile", written)>>
                    /\ files' = Append(files, [path |-> path, data |-> <<"json", doc>>,
                                               ok |-> written])
                    /\ err' = IF written THEN "nil" ELSE "failed to write file"
    /\ pc' = "returned"
    /\ UNCHANGED <<parserVars, parsed, goTemplate, result, result2, config, todo,
                   presetVars, tokenVars, exportFn>>

NextExport ==
    ExportFetch \/ ExportParse \/ ExportConvert \/ ExportHome \/ ExportMkdir \/ ExportWrite

SpecExport == InitExport /\ [][NextExport]_vars

----------------------------------------------------------------------------
(* Properties of the two exports, checked under SpecExport *)

\* the calls of an export, in the order of the source text
ExportOrder ==
    IF exportFn = "config"
    THEN <<"Show", "ParseOllamaModelfile", "ConvertToLMStudioFormat",
           "MarshalIndent", "WriteFile">>
    ELSE <<"Show", "ParseOllamaModelfile", "ConvertToLMStudioPreset",
           "UserHomeDir", "MkdirAll", "MarshalIndent", "WriteFile">>

Called(name) == \E i \in 1..Len(steps) : steps[i].call = name

\* the complete document the conversion gives for the fetched Modelfile
CompleteDocuments ==
    LET p == ParseOllamaModelfile(modelfileContent)
    IN  IF exportFn = "config"
        THEN {ConvertToLMStudioFormat(p, order) : order \in Orders(DOMAIN p.Parameters)}
        ELSE {ConvertToLMStudioPreset(p, modelName)}

\* C14: the calls of an export are made in the order fetch, parse, convert,
\* write, each at most once and none after a failed one; a failed fetch is
\* returned with nothing parsed, converted, created or written; the file is
\* written at most once, after the conversion and with the complete
\* document; a failed write is returned as the error of the export, and an
\* export that has returned does nothing more.
C14_ExportOrder ==
    /\ [](/\ Len(steps) <= Len(ExportOrder)
          /\ \A i \in 1..Len(steps) : steps[i].call = ExportOrder[i]
          /\ \A i \in 1..(Len(steps) - 1) : steps[i].ok
          /\ (steps # <<>> /\ ~steps[1].ok)
                 => /\ pc = "returned" /\ err = "failed to get model info"
                    /\ steps = <<Call("Show", FALSE)>>
                    /\ parsed = EmptyParsed /\ config = EmptyConfig
                    /\ preset = ZeroPreset /\ files = <<>>
          /\ Len(files) <= 1
          /\ Called("WriteFile") <=> files # <<>>
          /\ files # <<>>
                 => /\ Called("ConvertToLMStudioFormat") \/ Called("ConvertToLMStudioPreset")
                    /\ files[1].data[2] \in CompleteDocuments
                    /\ pc = "returned"
                    /\ files[1].ok <=> err = "nil"
                    /\ ~files[1].ok => err = "failed to write file"
          /\ (pc = "returned" /\ err = "nil") => (files # <<>> /\ files[1].ok))
    /\ [][pc # "returned" /\ (files' # files => pc = "write")]_vars

C14_Witness ==
    /\ pc = "returned" /\ exportFn = "preset"
    /\ Len(steps) = 7 /\ ~steps[7].ok
    /\ err = "failed to write file"
    /\ Len(files) = 1
    /\ files[1].data[2].OperationFields # <<>>

----------------------------------------------------------------------------
(* Balance of the conditionals convertGoTemplateToJinja writes, checked *)
(* under SpecTranslate                                                  *)

\* the word w stands in s at position i
WordAt(s, i, w) == i + Len(w) - 1 <= Len(s) /\ SubSeq(s, i, i + Len(w) - 1) = w

\* reading s from position i on with open conditionals still to be closed:
\* no {% endif %} comes without a conditional-open before it
RECURSIVE EndifsMatched(_, _, _)
EndifsMatched(s, i, open) ==
    IF i > Len(s) THEN TRUE
    ELSE IF WordAt(s, i, JinjaIfSystem) \/ WordAt(s, i, JinjaIfUser)
    THEN EndifsMatched(s, i + Len(JinjaIfSystem), open + 1)
    ELSE IF WordAt(s, i, JinjaEndif)
    THEN open > 0 /\ EndifsMatched(s, i + Len(JinjaEndif), open - 1)
    ELSE EndifsMatched(s, i + 1, open)

\* C22: in the value of convertGoTemplateToJinja every {% endif %} is
\* preceded by a matching {% if system_message %} or {% if user_message %};
\* the {{ end }} of a conditional that is not rewritten does not become
\* {% endif %}.
C22_ConditionalsBalanced ==
    (pc \in {"translated", "retranslated"}) => EndifsMatched(result, 1, 0)

----------------------------------------------------------------------------
(* Where ConvertToLMStudioFormat puts the stop values, checked under *)
(* SpecFormat                                                        *)

\* the Parsed Directives without their stop entry
WithoutStop(p) ==
    [p EXCEPT !.Parameters = [k \in (DOMAIN @) \ { <<"stop">> } |-> @[k]]]

\* the field is the numeric field of a table name of the mapping
TableField(f) ==
    \E name \in TableNames \cap DOMAIN parsed.Parameters :
        /\ parsed.Parameters[name] # <<>>
        /\ f.Key = TableKey(name)
        /\ Numeric(name, parsed.Parameters[name][1]).ok
        /\ f.Value = Numeric(name, parsed.Parameters[name][1]).val

\* C23: the stop values are emitted only inside the prompt-template object:
\* every other field is the numeric field of a table name, and with an empty
\* template the prediction group has no prompt-template field and the
\* document is one the mapping without its stop entry gives, whatever the
\* stop list holds.
C23_StopOnlyInTemplate ==
    Formatted =>
        /\ \A i \in 1..Len(config.PredictionFields) :
               \/ config.PredictionFields[i].Key = "llm.prediction.promptTemplate"
               \/ TableField(config.PredictionFields[i])
        /\ \A i \in 1..Len(config.LoadFields) : TableField(config.LoadFields[i])
        /\ parsed.Template = <<>> =>
               /\ WithKey(config.PredictionFields, "llm.prediction.promptTemplate") = {}
               /\ \E order \in Orders(DOMAIN WithoutStop(parsed).Parameters) :
                      config = ConvertToLMStudioFormat(WithoutStop(parsed), order)

C23_Witness ==
    /\ Formatted
    /\ parsed.Template = <<>>
    /\ DOMAIN parsed.Parameters = { <<"stop">>, <<"temperature">> }
    /\ parsed.Parameters[<<"stop">>] = << <<"4", "0">>, <<"a", "b", "c">> >>
    /\ parsed.Parameters[<<"temperature">>] = << <<"0", ".", "8">> >>
    /\ config.PredictionFields =
           << [Key |-> "llm.prediction.temperature",
               Value |-> [kind |-> "float64", mant |-> 8, scale |-> 1]] >>
    /\ config.LoadFields = <<>>

----------------------------------------------------------------------------
(* ConvertToLMStudioFormat as a function of its input, checked under *)
(* SpecFormat                                                        *)

FieldSet(fields) == {fields[i] : i \in 1..Len(fields)}

KeysDistinct(fields) ==
    \A i, j \in 1..Len(fields) : fields[i].Key = fields[j].Key => i = j

TemplateFirst(fields) ==
    WithKey(fields, "llm.prediction.promptTemplate") \subseteq {1}

\* C21: the document of a run has, in each group, the same set of key/value
\* fields as the document of any other run on the same Parsed Directives,
\* whatever order the range loop takes; the prompt-template field, when
\* present, is the first of the prediction group; no key occurs twice in a
\* group; and the Parsed Directives are never modified.
C21_Deterministic ==
    /\ [](Formatted =>
            /\ LET withTemplate == TemplateFields(EmptyConfig, parsed)
               IN  \A order \in Orders(DOMAIN parsed.Parameters) :
                   LET other == MapParameters(withTemplate, parsed, order)
                   IN  /\ FieldSet(config.PredictionFields) = FieldSet(other.PredictionFields)
                       /\ FieldSet(config.LoadFields) = FieldSet(other.LoadFields)
                       /\ Len(config.PredictionFields) = Len(other.PredictionFields)
                       /\ Len(config.LoadFields) = Len(other.LoadFields)
                       /\ TemplateFirst(other.PredictionFields)
            /\ (parsed.Template # <<>>) <=>
                   WithKey(config.PredictionFields, "llm.prediction.promptTemplate") = {1}
            /\ TemplateFirst(config.PredictionFields)
            /\ KeysDistinct(config.PredictionFields)
            /\ KeysDistinct(config.LoadFields))
    /\ [][parsed' = parsed]_vars

C21_Witness ==
    /\ Formatted
    /\ parsed.Template # <<>>
    /\ DOMAIN parsed.Parameters = { <<"temperature">>, <<"top_p">> }
    /\ Keys(config.PredictionFields) =
           <<"llm.prediction.promptTemplate", "llm.prediction.topP",
             "llm.prediction.temperature">>

C21_WitnessOtherOrder ==
    /\ Formatted
    /\ parsed.Template # <<>>
    /\ DOMAIN parsed.Parameters = { <<"temperature">>, <<"top_p">> }
    /\ Keys(config.PredictionFields) =
           <<"llm.prediction.promptTemplate", "llm.prediction.temperature",
             "llm.prediction.topP">>

====
